---- MODULE Spec2Model ----
(***************************************************************************)
(* A state-machine model of the turn loop of the roguelike: the action     *)
(* classes (actions.py), the monster AI (components/ai.py), the map        *)
(* queries (game_map.py), the message log (message_log.py) and the modal   *)
(* input handlers (input_handlers.py).                                     *)
(*                                                                         *)
(* One input event is handled in steps, in the order of the calls of       *)
(* EventHandler.handle_events / handle_action: the dispatch and            *)
(* action.perform(), then one step per monster of handle_enemy_turns, then *)
(* update_fov, then the is_alive test that selects the next handler. pc    *)
(* names the call that comes next; input is read only at pc = "dispatch".  *)
(***************************************************************************)
EXTENDS Integers, Sequences, FiniteSets, TLC

\* -------------------------------------------------------------------------
\* Bounds of the model
\* -------------------------------------------------------------------------
Width == 3
Height == 2
FovRadius == 1
MaxTurns == 2
InventoryCapacity == 1
MaxLog == 1
MaxCount == 2
MaxHistory == 13
TargetMapWidth == 202
MaxAdds == 4

\* -------------------------------------------------------------------------
\* State
\* -------------------------------------------------------------------------
VARIABLES
    pos,          \* entity -> <<x, y>>
    hp,           \* actor -> fighter.hp
    ai,           \* actor -> its AI value ([kind |-> "none"] once dead)
    entities,     \* GameMap.entities
    inventory,    \* the player's inventory.items, a sequence of items
    visible,      \* GameMap.visible, the set of tiles in view
    message_log,  \* MessageLog.messages (its last MaxLog entries)
    handler,      \* the active event handler
    pc,           \* the next call of handle_events / handle_action;
                  \* "exit" once main has left its loop
    todo,         \* monsters of the running enemy phase still to decide
    calls,        \* calls made for the input event being handled, in order
    last,         \* what the last step performed
    confusion,    \* per monster under confusion: the turns it was created
                  \* with, the AI it wrapped, the decisions taken since
    width,        \* GameMap.width
    height,       \* GameMap.height
    mouse_location,  \* Engine.mouse_location, the targeting cursor
    cursor,       \* HistoryViewer.cursor
    log_length,   \* HistoryViewer.log_length
    callback,     \* the targeting handler's callback: the item it was made
                  \* for, and the coordinates the last event called it with
    event,        \* the input event handled last
    save_file     \* whether the file savegame.sav exists

vars == <<pos, hp, ai, entities, inventory, visible, message_log,
          handler, pc, todo, calls, last, confusion,
          width, height, mouse_location, cursor, log_length, callback, event,
          save_file>>

\* The state of the map size, the cursors, the event record and the save
\* file: what a game turn leaves alone.
uivars == <<width, height, mouse_location, cursor, log_length, callback, event,
            save_file>>

\* -------------------------------------------------------------------------
\* The world: map, entities, fighters
\* -------------------------------------------------------------------------
Player == "player"
Enemies == {"orc", "troll"}
Actors == {Player} \cup Enemies
Items == {"potion", "scroll"}
Entities == Actors \cup Items

None == "None"

Tiles == (0 .. width - 1) \X (0 .. height - 1)
Walls == {<<1, 0>>}

\* tile_types.floor / tile_types.wall: the "walkable" field of a tile.
walkable(x, y) == <<x, y>> \notin Walls

\* Fighter components as the entity factories create them.
FighterStats ==
    [a \in Actors |->
        CASE a = "player" -> [max_hp |-> 2, power |-> 3, defense |-> 1]
          [] a = "orc"    -> [max_hp |-> 2, power |-> 2, defense |-> 0]
          [] a = "troll"  -> [max_hp |-> 2, power |-> 1, defense |-> 3]]

StartPos ==
    [e \in Entities |->
        CASE e = "player" -> <<0, 0>>
          [] e = "orc"    -> <<2, 1>>
          [] e = "troll"  -> <<2, 0>>
          [] e = "potion" -> <<0, 1>>
          [] e = "scroll" -> <<1, 1>>]

\* The eight compass directions of MOVE_KEYS and of ConfusedEnemy.perform.
MOVE_KEYS == {<<0, -1>>, <<0, 1>>, <<-1, 0>>, <<1, 0>>,
              <<-1, -1>>, <<-1, 1>>, <<1, -1>>, <<1, 1>>}
ConfusedDirections == {<<-1, -1>>, <<0, -1>>, <<1, -1>>, <<-1, 0>>,
                       <<1, 0>>, <<-1, 1>>, <<0, 1>>, <<1, 1>>}

Abs(n) == IF n < 0 THEN -n ELSE n
Max(a, b) == IF a >= b THEN a ELSE b
Min(a, b) == IF a <= b THEN a ELSE b
\* Chebyshev distance, as in HostileEnemy.perform.
Chebyshev(p, q) == Max(Abs(q[1] - p[1]), Abs(q[2] - p[2]))

\* -------------------------------------------------------------------------
\* AI values and liveness of actors
\* -------------------------------------------------------------------------
NoAI == [kind |-> "none"]
HostileAI(path) == [kind |-> "hostile", path |-> path]
ConfusedAI(previous_ai, turns_remaining) ==
    [kind |-> "confused", previous_ai |-> previous_ai,
     turns_remaining |-> turns_remaining]

\* Actor.is_alive: an actor is alive while it has an AI.
is_alive(a, ais) == ais[a].kind # "none"
\* Entity.blocks_movement: actors block until they die, items never do.
blocks_movement(e, ais) == e \in Actors /\ is_alive(e, ais)

\* -------------------------------------------------------------------------
\* The message log
\* -------------------------------------------------------------------------
Text(msg, a, b, n) == [msg |-> msg, a |-> a, b |-> b, n |-> n]
Plain(msg) == Text(msg, "", "", 0)
Message(text, fg) == [plain_text |-> text, fg |-> fg, count |-> 1]

\* add_message that never stacks.
add_message_AlwaysAppend(log, text, fg, stack) == Append(log, Message(text, fg))

\* add_message whose stacking sets the count to 2.
add_message_CountTwo(log, text, fg, stack) ==
    IF stack /\ log # <<>> /\ text = log[Len(log)].plain_text
    THEN [log EXCEPT ![Len(log)].count = 2]
    ELSE Append(log, Message(text, fg))

\* MessageLog.add_message(text, fg, stack=stack).
add_message(log, text, fg, stack) ==
    IF stack /\ log # <<>> /\ text = log[Len(log)].plain_text
    THEN [log EXCEPT ![Len(log)].count = @ + 1]
    ELSE Append(log, Message(text, fg))

\* The game loop's view of the log: the entries before the last MaxLog are
\* never read by an action or an AI, and repeat counts saturate at MaxCount.
Keep(log) ==
    LET n == Len(log)
        s == IF n > MaxLog THEN SubSeq(log, n - MaxLog + 1, n) ELSE log
    IN [i \in 1 .. Len(s) |-> [s[i] EXCEPT !.count = Min(@, MaxCount)]]

RECURSIVE AddAll(_, _)
AddAll(log, msgs) ==
    IF msgs = <<>> THEN log
    ELSE AddAll(add_message(log, Head(msgs).text, Head(msgs).fg, TRUE), Tail(msgs))

\* -------------------------------------------------------------------------
\* GameMap queries
\* -------------------------------------------------------------------------
in_bounds(x, y) == 0 <= x /\ x < width /\ 0 <= y /\ y < height

\* GameMap.actors: the living actors on the map.
actors == {e \in entities \cap Actors : is_alive(e, ai)}
\* GameMap.items: the items on the map.
items == entities \cap Items

\* The entities get_blocking_entity_at_location can return; it returns None
\* when there is none.
get_blocking_entity_at_location(x, y) ==
    {e \in entities : blocks_movement(e, ai) /\ pos[e] = <<x, y>>}

\* The actors get_actor_at_location can return (the first one the iteration
\* over the entity set meets), None when no living actor stands there.
get_actor_at_location(x, y) ==
    LET found == {a \in actors : pos[a] = <<x, y>>}
    IN IF found = {} THEN {None} ELSE found

\* -------------------------------------------------------------------------
\* Actions: perform() as a function of the current state. The result names
\* the exception raised (NoExc: none) and the state perform leaves behind.
\* -------------------------------------------------------------------------
NoExc == "no exception"
Blocked == "That way is blocked."
NothingToAttack == "Nothing to attack."
InventoryFull == "Your inventory is full."
NothingHere == "There is nothing here to pick up."
ConsumableRefused == "The item cannot be used."

Result(kind) ==
    [kind |-> kind, exc |-> NoExc, pos |-> pos, hp |-> hp, ai |-> ai,
     entities |-> entities, inventory |-> inventory,
     msgs |-> <<>>, checks |-> <<>>, target |-> None, dx |-> 0, dy |-> 0]

\* Entity.move(dx, dy).
move(e, dx, dy) == [pos EXCEPT ![e] = <<pos[e][1] + dx, pos[e][2] + dy>>]

\* Fighter.hp setter: the value is kept within [0, max_hp].
ClampHp(a, value) == Max(0, Min(value, FighterStats[a].max_hp))
\* Fighter.die, run by the setter when hp reaches 0: the actor loses its AI.
AfterDamage(ais, a, newhp) ==
    IF newhp = 0 /\ is_alive(a, ais) THEN [ais EXCEPT ![a] = NoAI] ELSE ais

WaitAction(e) == Result("Wait")

\* MovementAction with the tile test made before the bounds test.
MovementAction_WalkableFirst(e, dx, dy) ==
    LET dest_x == pos[e][1] + dx
        dest_y == pos[e][2] + dy
        r == [Result("Movement") EXCEPT !.dx = dx, !.dy = dy]
    IN IF ~walkable(dest_x, dest_y)
       THEN [r EXCEPT !.exc = Blocked, !.checks = <<"walkable">>]
       ELSE IF ~in_bounds(dest_x, dest_y)
       THEN [r EXCEPT !.exc = Blocked, !.checks = <<"walkable", "in_bounds">>]
       ELSE IF get_blocking_entity_at_location(dest_x, dest_y) # {}
       THEN [r EXCEPT !.exc = Blocked,
                      !.checks = <<"walkable", "in_bounds", "blocking_entity">>]
       ELSE [r EXCEPT !.pos = move(e, dx, dy),
                      !.checks = <<"walkable", "in_bounds", "blocking_entity">>]

\* MovementAction without the test of the tile.
MovementAction_NoWalkable(e, dx, dy) ==
    LET dest_x == pos[e][1] + dx
        dest_y == pos[e][2] + dy
        r == [Result("Movement") EXCEPT !.dx = dx, !.dy = dy]
    IN IF ~in_bounds(dest_x, dest_y)
       THEN [r EXCEPT !.exc = Blocked, !.checks = <<"in_bounds">>]
       ELSE IF get_blocking_entity_at_location(dest_x, dest_y) # {}
       THEN [r EXCEPT !.exc = Blocked, !.checks = <<"in_bounds", "blocking_entity">>]
       ELSE [r EXCEPT !.pos = move(e, dx, dy),
                      !.checks = <<"in_bounds", "blocking_entity">>]

\* MovementAction without the test for a blocking entity.
MovementAction_NoBlocker(e, dx, dy) ==
    LET dest_x == pos[e][1] + dx
        dest_y == pos[e][2] + dy
        r == [Result("Movement") EXCEPT !.dx = dx, !.dy = dy]
    IN IF ~in_bounds(dest_x, dest_y)
       THEN [r EXCEPT !.exc = Blocked, !.checks = <<"in_bounds">>]
       ELSE IF ~walkable(dest_x, dest_y)
       THEN [r EXCEPT !.exc = Blocked, !.checks = <<"in_bounds", "walkable">>]
       ELSE [r EXCEPT !.pos = move(e, dx, dy),
                      !.checks = <<"in_bounds", "walkable">>]

MovementAction(e, dx, dy) ==
    LET dest_x == pos[e][1] + dx
        dest_y == pos[e][2] + dy
        r == [Result("Movement") EXCEPT !.dx = dx, !.dy = dy]
    IN IF ~in_bounds(dest_x, dest_y)
       THEN [r EXCEPT !.exc = Blocked, !.checks = <<"in_bounds">>]
       ELSE IF ~walkable(dest_x, dest_y)
       THEN [r EXCEPT !.exc = Blocked, !.checks = <<"in_bounds", "walkable">>]
       ELSE IF get_blocking_entity_at_location(dest_x, dest_y) # {}
       THEN [r EXCEPT !.exc = Blocked,
                      !.checks = <<"in_bounds", "walkable", "blocking_entity">>]
       ELSE [r EXCEPT !.pos = move(e, dx, dy),
                      !.checks = <<"in_bounds", "walkable", "blocking_entity">>]

\* MeleeAction with the defender's defense left out of the damage.
MeleeAction_NoDefense(e, dx, dy, target) ==
    LET r == [Result("Melee") EXCEPT !.dx = dx, !.dy = dy]
    IN IF target = None
       THEN [r EXCEPT !.exc = NothingToAttack]
       ELSE LET damage == FighterStats[e].power
                attack_color == IF e = Player THEN "player_atk" ELSE "enemy_atk"
                newhp == ClampHp(target, hp[target] - damage)
            IN [r EXCEPT !.target = target,
                         !.msgs = <<[text |-> Text("attacks for", e, target, damage),
                                     fg |-> attack_color]>>,
                         !.hp = [hp EXCEPT ![target] = newhp],
                         !.ai = AfterDamage(ai, target, newhp)]

\* target is the value self.target_actor returns.
MeleeAction(e, dx, dy, target) ==
    LET r == [Result("Melee") EXCEPT !.dx = dx, !.dy = dy]
    IN IF target = None
       THEN [r EXCEPT !.exc = NothingToAttack]
       ELSE LET damage == FighterStats[e].power - FighterStats[target].defense
                attack_color == IF e = Player THEN "player_atk" ELSE "enemy_atk"
                newhp == ClampHp(target, hp[target] - damage)
            IN IF damage > 0
               THEN [r EXCEPT !.target = target,
                              !.msgs = <<[text |-> Text("attacks for", e, target, damage),
                                          fg |-> attack_color]>>,
                              !.hp = [hp EXCEPT ![target] = newhp],
                              !.ai = AfterDamage(ai, target, newhp)]
               ELSE [r EXCEPT !.target = target,
                              !.msgs = <<[text |-> Text("attacks but does no damage", e, target, 0),
                                          fg |-> attack_color]>>]

\* BumpAction that never looks for an actor at the destination.
BumpAction_AlwaysMove(e, dx, dy, target) == MovementAction(e, dx, dy)

BumpAction(e, dx, dy, target) ==
    IF target # None
    THEN MeleeAction(e, dx, dy, target)
    ELSE MovementAction(e, dx, dy)

\* PickupAction with the capacity test made after the transfer.
PickupAction_TransferThenCheck(e, item) ==
    LET r == Result("Pickup")
    IN IF item = None
       THEN [r EXCEPT !.exc = NothingHere]
       ELSE IF Len(inventory) >= InventoryCapacity
       THEN [r EXCEPT !.exc = InventoryFull, !.entities = entities \ {item}]
       ELSE [r EXCEPT !.entities = entities \ {item},
                      !.inventory = Append(inventory, item),
                      !.target = item,
                      !.msgs = <<[text |-> Text("You picked up the", item, "", 0),
                                  fg |-> "white"]>>]

\* PickupAction without the capacity test.
PickupAction_NoCapacity(e, item) ==
    LET r == Result("Pickup")
    IN IF item = None
       THEN [r EXCEPT !.exc = NothingHere]
       ELSE [r EXCEPT !.entities = entities \ {item},
                      !.inventory = Append(inventory, item),
                      !.target = item,
                      !.msgs = <<[text |-> Text("You picked up the", item, "", 0),
                                  fg |-> "white"]>>]

\* item is the first element the loop over game_map.items meets (None when
\* the map holds no item).
PickupAction(e, item) ==
    LET r == Result("Pickup")
    IN IF item = None
       THEN [r EXCEPT !.exc = NothingHere]
       ELSE IF Len(inventory) >= InventoryCapacity
       THEN [r EXCEPT !.exc = InventoryFull]
       ELSE [r EXCEPT !.entities = entities \ {item},
                      !.inventory = Append(inventory, item),
                      !.target = item,
                      !.msgs = <<[text |-> Text("You picked up the", item, "", 0),
                                  fg |-> "white"]>>]

PickupChoices == IF items = {} THEN {None} ELSE items

\* ItemAction.perform delegates to item.consumable.activate(self): the
\* consumable either raises Impossible or takes effect and is consumed.
ItemAction(e, item, outcome) ==
    LET r == Result("Item")
    IN IF outcome = "impossible"
       THEN [r EXCEPT !.exc = ConsumableRefused, !.target = item]
       ELSE [r EXCEPT !.target = item,
                      !.inventory = SelectSeq(inventory, LAMBDA i : i # item)]

\* -------------------------------------------------------------------------
\* Pathfinding (BaseAI.get_path_to)
\* -------------------------------------------------------------------------
PathPenalty == 10
CardinalCost == 2
DiagonalCost == 3
Unreachable == (width * height + 1) * (1 + PathPenalty * Cardinality(Actors)) * DiagonalCost

\* The cost grid without the penalty of the deciding actor's neighbours.
CostGrid_NoPenalty == [t \in Tiles |-> IF walkable(t[1], t[2]) THEN 1 ELSE 0]

\* The cost grid: a copy of tiles["walkable"] as integers, plus 10 for each
\* blocking entity on a cell whose cost is not zero.
CostGrid ==
    [t \in Tiles |->
        IF walkable(t[1], t[2])
        THEN 1 + PathPenalty * Cardinality({e \in entities :
                                   blocks_movement(e, ai) /\ pos[e] = t})
        ELSE 0]

Neighbours(t) == {n \in Tiles : Chebyshev(t, n) = 1}
StepCost(u, v) == IF u[1] = v[1] \/ u[2] = v[2] THEN CardinalCost ELSE DiagonalCost

MinOf(S) == CHOOSE m \in S : \A n \in S : m <= n

\* Least cost from every cell to dest over at most k steps; entering cell v
\* costs cost[v] times the step cost, and a cell of cost 0 cannot be entered.
RECURSIVE CostTo(_, _, _)
CostTo(cost, dest, k) ==
    IF k = 0
    THEN {<<t, IF t = dest THEN 0 ELSE Unreachable>> : t \in Tiles}
    ELSE LET prev == CostTo(cost, dest, k - 1)
             d(t) == (CHOOSE pr \in prev : pr[1] = t)[2]
         IN {<<t, MinOf({d(t)} \cup
                        {d(v) + cost[v] * StepCost(t, v) :
                            v \in {n \in Neighbours(t) : cost[n] > 0 /\ d(n) < Unreachable}})>> :
                t \in Tiles}

\* The least-cost paths from cell `from`, the starting cell excluded.
RECURSIVE PathsFrom(_, _, _, _)
PathsFrom(from, dest, cost, dist) ==
    IF from = dest THEN {<<>>}
    ELSE UNION {{<<v>> \o p : p \in PathsFrom(v, dest, cost, dist)} :
                v \in {n \in Neighbours(from) :
                         /\ cost[n] > 0
                         /\ dist[n] < Unreachable
                         /\ dist[n] + cost[n] * StepCost(from, n) = dist[from]}}

\* The paths get_path_to(dest_x, dest_y) can return for actor e: a least-cost
\* path, or the empty list when the destination cannot be reached.
get_path_to(e, dest_x, dest_y) ==
    LET cost == CostGrid
        dest == <<dest_x, dest_y>>
        pairs == CostTo(cost, dest, Cardinality(Tiles))
        dist == [t \in Tiles |-> (CHOOSE pr \in pairs : pr[1] = t)[2]]
    IN IF dist[pos[e]] >= Unreachable THEN {<<>>}
       ELSE PathsFrom(pos[e], dest, cost, dist)

\* -------------------------------------------------------------------------
\* AI decisions (HostileEnemy.perform, ConfusedEnemy.perform)
\* -------------------------------------------------------------------------
\* The paths the decision of hostile actor e can compute: get_path_to is
\* called only when e's tile is visible and the player is out of reach.
HostilePathChoices(e) ==
    IF pos[e] \in visible /\ Chebyshev(pos[e], pos[Player]) > 1
    THEN get_path_to(e, pos[Player][1], pos[Player][2])
    ELSE {<<>>}

\* HostileEnemy.perform without the test of the visible array.
HostileEnemy_AlwaysSense(e, target, newpath) ==
    LET dx == pos[Player][1] - pos[e][1]
        dy == pos[Player][2] - pos[e][2]
        distance == Max(Abs(dx), Abs(dy))
    IN IF distance <= 1
       THEN MeleeAction(e, dx, dy, target)
       ELSE LET path == newpath
            IN IF path # <<>>
               THEN LET dest == Head(path)
                        r == MovementAction(e, dest[1] - pos[e][1], dest[2] - pos[e][2])
                    IN [r EXCEPT !.ai = [r.ai EXCEPT ![e] = HostileAI(Tail(path))]]
               ELSE LET r == WaitAction(e)
                    IN [r EXCEPT !.ai = [r.ai EXCEPT ![e] = HostileAI(path)]]

\* HostileEnemy.perform that reads the first waypoint and leaves it on the
\* path.
HostileEnemy_KeepWaypoint(e, target, newpath) ==
    LET dx == pos[Player][1] - pos[e][1]
        dy == pos[Player][2] - pos[e][2]
        distance == Max(Abs(dx), Abs(dy))
        sensing == pos[e] \in visible
    IN IF sensing /\ distance <= 1
       THEN MeleeAction(e, dx, dy, target)
       ELSE LET path == IF sensing THEN newpath ELSE ai[e].path
            IN IF path # <<>>
               THEN LET dest == Head(path)
                        r == MovementAction(e, dest[1] - pos[e][1], dest[2] - pos[e][2])
                    IN [r EXCEPT !.ai = [r.ai EXCEPT ![e] = HostileAI(path)]]
               ELSE LET r == WaitAction(e)
                    IN [r EXCEPT !.ai = [r.ai EXCEPT ![e] = HostileAI(path)]]

\* target: what get_actor_at_location returns for the Melee; newpath: what
\* get_path_to returns if it is called.
HostileEnemy(e, target, newpath) ==
    LET dx == pos[Player][1] - pos[e][1]
        dy == pos[Player][2] - pos[e][2]
        distance == Max(Abs(dx), Abs(dy))
        sensing == pos[e] \in visible
    IN IF sensing /\ distance <= 1
       THEN MeleeAction(e, dx, dy, target)
       ELSE LET path == IF sensing THEN newpath ELSE ai[e].path
            IN IF path # <<>>
               THEN LET dest == Head(path)
                        r == MovementAction(e, dest[1] - pos[e][1], dest[2] - pos[e][2])
                    IN [r EXCEPT !.ai = [r.ai EXCEPT ![e] = HostileAI(Tail(path))]]
               ELSE LET r == WaitAction(e)
                    IN [r EXCEPT !.ai = [r.ai EXCEPT ![e] = HostileAI(path)]]

\* ConfusedEnemy that lowers the counter only after a Bump that did not raise.
ConfusedEnemy_DecrementAfter(e, direction, target) ==
    IF ai[e].turns_remaining <= 0
    THEN [Result("Revert") EXCEPT
             !.msgs = <<[text |-> Text("is no longer confused", e, "", 0),
                         fg |-> "white"]>>,
             !.ai = [ai EXCEPT ![e] = ai[e].previous_ai]]
    ELSE LET r == BumpAction(e, direction[1], direction[2], target)
         IN IF r.exc # NoExc THEN r
            ELSE [r EXCEPT !.ai = [r.ai EXCEPT ![e] =
                    [r.ai[e] EXCEPT !.turns_remaining = @ - 1]]]

\* direction: the value random.choice returns; target: what
\* get_actor_at_location returns for the Bump.
ConfusedEnemy(e, direction, target) ==
    IF ai[e].turns_remaining <= 0
    THEN [Result("Revert") EXCEPT
             !.msgs = <<[text |-> Text("is no longer confused", e, "", 0),
                         fg |-> "white"]>>,
             !.ai = [ai EXCEPT ![e] = ai[e].previous_ai]]
    ELSE LET r == BumpAction(e, direction[1], direction[2], target)
         IN [r EXCEPT !.ai = [r.ai EXCEPT ![e] =
                 IF r.ai[e].kind = "confused"
                 THEN [r.ai[e] EXCEPT !.turns_remaining = @ - 1]
                 ELSE r.ai[e]]]

\* -------------------------------------------------------------------------
\* Engine: field of view
\* -------------------------------------------------------------------------
\* Engine.update_fov: the tiles in view from the player's position.
compute_fov(p) == {t \in Tiles : Chebyshev(p, t) <= FovRadius}

\* -------------------------------------------------------------------------
\* Initial state
\* -------------------------------------------------------------------------
\* A hostile AI in pursuit, with a waypoint left on its path: the AI a
\* confusion effect wraps.
ChasingAI == HostileAI(<< <<1, 1>> >>)

NotConfused == [n |-> 0, previous_ai |-> NoAI, decisions |-> 0]

\* No input event handled yet.
NoEvent ==
    [type |-> "none", sym |-> "none", seq |-> 0,
     dx |-> 0, dy |-> 0, mods |-> {}, x |-> 0, y |-> 0, button |-> 0, index |-> 0]
\* The record of an input event: its type and key, for a movement key the
\* direction and the modifiers held, for a mouse event the tile and the
\* button, for a key of sym "key" its index event.sym - K_a; seq tells two
\* like events in a row apart.
Ev(type, sym) == [NoEvent EXCEPT !.type = type, !.sym = sym, !.seq = 1 - event.seq]

\* No targeting handler constructed.
NoCallback == [item |-> None, args |-> <<>>]

\* The cursors before any handler that owns one was entered: Engine starts
\* with mouse_location (0, 0), and no HistoryViewer exists.
NoUI ==
    /\ mouse_location = <<0, 0>>
    /\ cursor = 0
    /\ log_length = 0
    /\ callback = NoCallback
    /\ event = NoEvent

NoLast ==
    [who |-> None, act |-> "none", kind |-> "none", dx |-> 0, dy |-> 0,
     exc |-> NoExc, checks |-> <<>>, adds |-> 0, target |-> None]

Init ==
    /\ width = Width
    /\ height = Height
    /\ pos = StartPos
    /\ hp = [a \in Actors |-> FighterStats[a].max_hp]
    /\ \E n \in -1 .. MaxTurns :
          /\ ai = [a \in Actors |->
                     IF a = "orc" /\ n >= 0
                     THEN ConfusedAI(ChasingAI, n)
                     ELSE HostileAI(<<>>)]
          /\ confusion = [e \in Enemies |->
                            IF e = "orc" /\ n >= 0
                            THEN [n |-> n, previous_ai |-> ChasingAI, decisions |-> 0]
                            ELSE NotConfused]
    /\ entities = Entities
    /\ inventory = <<>>
    /\ visible = compute_fov(StartPos[Player])
    /\ message_log = <<>>
    /\ handler = "MainGame"
    /\ pc = "dispatch"
    /\ todo = {}
    /\ calls = <<>>
    /\ last = NoLast
    /\ NoUI
    /\ save_file = FALSE

\* -------------------------------------------------------------------------
\* EventHandler.handle_events / handle_action
\* -------------------------------------------------------------------------
LastOf(who, act, r) ==
    [who |-> who, act |-> act, kind |-> r.kind, dx |-> r.dx, dy |-> r.dy,
     exc |-> r.exc, checks |-> r.checks, adds |-> Len(r.msgs), target |-> r.target]

\* handle_action with update_fov called before handle_enemy_turns.
HandleActionNext_FovFirst(call) ==
    CASE call = "perform" -> "update_fov"
      [] call = "update_fov" -> "handle_enemy_turns"
      [] call = "handle_enemy_turns" -> "is_alive"
      [] OTHER -> "dispatch"

\* The call handle_action makes after the given one returns.
HandleActionNext(call) ==
    CASE call = "perform" -> "handle_enemy_turns"
      [] call = "handle_enemy_turns" -> "update_fov"
      [] call = "update_fov" -> "is_alive"
      [] OTHER -> "dispatch"

\* The state perform() leaves behind.
Apply(r) ==
    /\ pos' = r.pos
    /\ hp' = r.hp
    /\ ai' = r.ai
    /\ entities' = r.entities
    /\ inventory' = r.inventory

\* handle_action that logs an Impossible and goes on with the turn.
HandleAction_NoReturn(act, r) ==
    /\ Apply(r)
    /\ calls' = <<"perform">>
    /\ last' = [LastOf(Player, act, r) EXCEPT
                   !.adds = IF r.exc # NoExc THEN @ + 1 ELSE @]
    /\ todo' = {}
    /\ visible' = visible
    /\ confusion' = confusion
    /\ handler' = handler
    /\ pc' = HandleActionNext("perform")
    /\ message_log' = IF r.exc # NoExc
                      THEN Keep(add_message(AddAll(message_log, r.msgs),
                                            Plain(r.exc), "impossible", TRUE))
                      ELSE Keep(AddAll(message_log, r.msgs))

\* handle_events for an event whose dispatch returns the action with result
\* r: perform it; on Impossible log the reason and stay, otherwise go on to
\* the enemy phase.
HandleAction(act, r) ==
    /\ Apply(r)
    /\ calls' = <<"perform">>
    /\ last' = [LastOf(Player, act, r) EXCEPT
                   !.adds = IF r.exc # NoExc THEN @ + 1 ELSE @]
    /\ todo' = {}
    /\ visible' = visible
    /\ confusion' = confusion
    /\ IF r.exc # NoExc
       THEN /\ message_log' = Keep(add_message(AddAll(message_log, r.msgs),
                                               Plain(r.exc), "impossible", TRUE))
            /\ handler' = handler
            /\ pc' = "dispatch"
       ELSE /\ message_log' = Keep(AddAll(message_log, r.msgs))
            /\ handler' = handler
            /\ pc' = HandleActionNext("perform")

\* A returned handler that is sent through the rest of handle_action.
SwitchTo_ThroughTurn(state) ==
    /\ handler' = state
    /\ calls' = <<>>
    /\ last' = [NoLast EXCEPT !.act = "handler"]
    /\ pc' = HandleActionNext("perform")
    /\ UNCHANGED <<pos, hp, ai, entities, inventory, visible, message_log, todo,
                   confusion>>

\* An event whose dispatch returns a handler: it becomes the active one.
SwitchTo(state) ==
    /\ handler' = state
    /\ calls' = <<>>
    /\ last' = [NoLast EXCEPT !.act = "handler"]
    /\ UNCHANGED <<pos, hp, ai, entities, inventory, visible, message_log, pc, todo,
                   confusion>>

\* An event whose dispatch returns None: handle_action returns False.
NoAction ==
    /\ calls' = <<>>
    /\ last' = [NoLast EXCEPT !.act = "None"]
    /\ UNCHANGED <<pos, hp, ai, entities, inventory, visible, message_log, handler,
                   pc, todo, confusion>>

\* -------------------------------------------------------------------------
\* MainGameEventHandler.ev_keydown
\* -------------------------------------------------------------------------
MoveKey(d) ==
    /\ pc = "dispatch" /\ handler = "MainGame"
    /\ \E target \in get_actor_at_location(pos[Player][1] + d[1], pos[Player][2] + d[2]) :
          HandleAction("Bump", BumpAction(Player, d[1], d[2], target))
    /\ UNCHANGED uivars

WaitKey ==
    /\ pc = "dispatch" /\ handler = "MainGame"
    /\ HandleAction("Wait", WaitAction(Player))
    /\ UNCHANGED uivars

PickupKey ==
    /\ pc = "dispatch" /\ handler = "MainGame"
    /\ \E item \in PickupChoices :
          HandleAction("Pickup", PickupAction(Player, item))
    /\ UNCHANGED uivars

InventoryKey ==
    /\ pc = "dispatch" /\ handler = "MainGame"
    /\ SwitchTo("InventoryActivate")
    /\ UNCHANGED uivars

\* A key of no table: action stays None.
MainOtherKey ==
    /\ pc = "dispatch" /\ handler = "MainGame"
    /\ NoAction
    /\ UNCHANGED uivars

\* -------------------------------------------------------------------------
\* InventoryEventHandler.ev_keydown, InventoryActivateHandler
\* -------------------------------------------------------------------------
K_a_Range == 0 .. 26

\* player.inventory.items[index] raises IndexError past the end of the list.
SlotPresent(index) == index + 1 <= Len(inventory)

ActivateLetterKey(index) ==
    /\ pc = "dispatch" /\ handler = "InventoryActivate"
    /\ index \in K_a_Range
    /\ IF SlotPresent(index)
       THEN \E outcome \in {"ok", "impossible"} :
               HandleAction("Item", ItemAction(Player, inventory[index + 1], outcome))
       ELSE /\ message_log' = Keep(add_message(message_log, Plain("Invalid entry."),
                                               "invalid", TRUE))
            /\ calls' = <<>>
            /\ last' = [NoLast EXCEPT !.act = "None", !.adds = 1]
            /\ UNCHANGED <<pos, hp, ai, entities, inventory, visible, handler, pc, todo,
                           confusion>>
    /\ UNCHANGED uivars

\* AskUserEventHandler.ev_keydown: any other key leaves for the main handler.
ActivateOtherKey ==
    /\ pc = "dispatch" /\ handler = "InventoryActivate"
    /\ SwitchTo("MainGame")
    /\ UNCHANGED uivars

\* -------------------------------------------------------------------------
\* GameOverEventHandler.ev_keydown: a key other than escape does nothing.
\* -------------------------------------------------------------------------
GameOverKey_NewGame ==
    /\ pc = "dispatch" /\ handler = "GameOver"
    /\ SwitchTo("MainGame")
    /\ UNCHANGED uivars

GameOverKey ==
    /\ pc = "dispatch" /\ handler = "GameOver"
    /\ NoAction
    /\ UNCHANGED uivars

\* -------------------------------------------------------------------------
\* The rest of handle_action and handle_events after a performed action
\* -------------------------------------------------------------------------
PhaseStarted == "handle_enemy_turns" \in {calls[i] : i \in DOMAIN calls}

\* Engine.handle_enemy_turns: the living actors other than the player, each
\* to take its decision.
HandleEnemyTurns ==
    /\ pc = "handle_enemy_turns" /\ ~PhaseStarted
    /\ todo' = actors \ {Player}
    /\ calls' = Append(calls, "handle_enemy_turns")
    /\ UNCHANGED <<pos, hp, ai, entities, inventory, visible, message_log, handler, pc,
                   last, confusion>>
    /\ UNCHANGED uivars

\* One monster's turn: entity.ai.perform(), an Impossible is discarded.
EnemyApply(e, act, r) ==
    /\ Apply(r)
    /\ message_log' = Keep(AddAll(message_log, r.msgs))
    /\ last' = LastOf(e, act, r)
    /\ todo' = todo \ {e}
    /\ confusion' = [confusion EXCEPT ![e] =
            IF ai[e].kind = "confused" THEN [@ EXCEPT !.decisions = @ + 1] ELSE @]
    /\ UNCHANGED <<visible, handler, pc, calls>>
    /\ UNCHANGED uivars

EnemyTurn(e) ==
    /\ pc = "handle_enemy_turns" /\ PhaseStarted /\ e \in todo
    /\ CASE ai[e].kind = "hostile" ->
              \E target \in get_actor_at_location(pos[Player][1], pos[Player][2]) :
              \E newpath \in HostilePathChoices(e) :
                 EnemyApply(e, "Hostile", HostileEnemy(e, target, newpath))
         [] ai[e].kind = "confused" ->
              \E direction \in ConfusedDirections :
              \E target \in get_actor_at_location(pos[e][1] + direction[1],
                                                   pos[e][2] + direction[2]) :
                 EnemyApply(e, "Confused", ConfusedEnemy(e, direction, target))
         [] OTHER -> EnemyApply(e, "Skip", Result("none"))

EnemyPhaseDone ==
    /\ pc = "handle_enemy_turns" /\ PhaseStarted /\ todo = {}
    /\ pc' = HandleActionNext("handle_enemy_turns")
    /\ confusion' = [e \in Enemies |->
                        IF ai[e].kind = "confused" THEN confusion[e] ELSE NotConfused]
    /\ UNCHANGED <<pos, hp, ai, entities, inventory, visible, message_log,
                   handler, todo, calls, last>>
    /\ UNCHANGED uivars

UpdateFov ==
    /\ pc = "update_fov"
    /\ visible' = compute_fov(pos[Player])
    /\ calls' = Append(calls, "update_fov")
    /\ pc' = HandleActionNext("update_fov")
    /\ UNCHANGED <<pos, hp, ai, entities, inventory, message_log, handler, todo, last,
                   confusion>>
    /\ UNCHANGED uivars

\* handle_events that returns to the main handler whatever became of the player.
AliveCheck_AlwaysMain ==
    /\ pc = "is_alive"
    /\ handler' = "MainGame"
    /\ calls' = Append(calls, "is_alive")
    /\ pc' = "dispatch"
    /\ UNCHANGED <<pos, hp, ai, entities, inventory, visible, message_log, todo, last,
                   confusion>>
    /\ UNCHANGED uivars

\* handle_events after handle_action returned True.
AliveCheck ==
    /\ pc = "is_alive"
    /\ handler' = IF is_alive(Player, ai) THEN "MainGame" ELSE "GameOver"
    /\ calls' = Append(calls, "is_alive")
    /\ pc' = "dispatch"
    /\ UNCHANGED <<pos, hp, ai, entities, inventory, visible, message_log, todo, last,
                   confusion>>
    /\ UNCHANGED uivars

Next ==
    \/ \E d \in MOVE_KEYS : MoveKey(d)
    \/ WaitKey
    \/ PickupKey
    \/ InventoryKey
    \/ MainOtherKey
    \/ \E index \in K_a_Range : ActivateLetterKey(index)
    \/ ActivateOtherKey
    \/ GameOverKey
    \/ HandleEnemyTurns
    \/ \E e \in Enemies : EnemyTurn(e)
    \/ EnemyPhaseDone
    \/ UpdateFov
    \/ AliveCheck

Spec == Init /\ [][Next]_vars

\* -------------------------------------------------------------------------
\* Properties
\* -------------------------------------------------------------------------
\* The step in which the player's action is performed, and the step in which
\* monster e takes its decision.
PlayerPerformStep == pc = "dispatch" /\ last'.who = Player
EnemyDecisionStep(e) ==
    pc = "handle_enemy_turns" /\ PhaseStarted /\ e \in todo /\ e \notin todo'
LastEntry(log) == log[Len(log)]
HandleActionCalls == <<"perform", "handle_enemy_turns", "update_fov", "is_alive">>

\* C1: a player action whose perform raises Impossible runs neither the enemy
\* phase nor the visibility recompute, puts the failure reason in the message
\* log, and consumes no turn (input is read again at once).
C1_ImpossibleCostsNoTurn ==
    (last.who = Player /\ last.exc # NoExc) =>
        /\ calls = <<"perform">>
        /\ pc = "dispatch"
        /\ todo = {}
        /\ message_log # <<>>
        /\ LastEntry(message_log).plain_text = Plain(last.exc)

C1_Witness ==
    /\ last.who = Player /\ last.act = "Bump" /\ last.exc = Blocked
    /\ last.checks = <<"in_bounds">>
    /\ pc = "dispatch"

\* The state part and the step part of C2.
C2_Inv ==
    /\ (pc = "dispatch" /\ calls # <<>> /\ calls # <<"perform">>) =>
          /\ calls = HandleActionCalls
          /\ handler = IF is_alive(Player, ai) THEN "MainGame" ELSE "GameOver"
    /\ (pc = "dispatch" /\ calls = <<"perform">>) => (last.who = Player /\ last.exc # NoExc)
    /\ (last.who = Player /\ last.exc = NoExc) =>
          (pc # "dispatch" \/ calls = HandleActionCalls)

C2_Step ==
    (pc = "dispatch" /\ (last'.act = "None" \/ (last'.who = Player /\ last'.exc # NoExc)))
        => handler' = handler

\* C2: after a submitted action that succeeds the active handler is GameOver
\* when the player is no longer alive and MainGame otherwise; after one that
\* fails with Impossible, or when no action was returned, the active handler
\* is the one that was active before the event.
C2_NextHandler == []C2_Inv /\ [][C2_Step]_vars

C2_Witness ==
    /\ handler = "GameOver" /\ ~is_alive(Player, ai) /\ calls = HandleActionCalls

\* The state part and the step part of C3.
IsPrefix(sq, full) == Len(sq) <= Len(full) /\ sq = SubSeq(full, 1, Len(sq))
EventOver ==
    \/ calls = <<>>
    \/ calls = HandleActionCalls
    \/ calls = <<"perform">> /\ last.who = Player /\ last.exc # NoExc

C3_Inv ==
    /\ IsPrefix(calls, HandleActionCalls)
    /\ (pc = "dispatch") = EventOver
    /\ todo # {} => calls = <<"perform", "handle_enemy_turns">>

C3_Step ==
    /\ \/ calls' = calls
       \/ /\ ~EventOver
          /\ Len(calls) < Len(HandleActionCalls)
          /\ calls' = Append(calls, HandleActionCalls[Len(calls) + 1])
       \/ EventOver /\ calls' \in {<<>>, <<"perform">>}
    /\ <<pos, hp, ai, entities, inventory>>' # <<pos, hp, ai, entities, inventory>> =>
          \/ EventOver /\ calls' = <<"perform">> /\ last'.who = Player
          \/ /\ calls = <<"perform", "handle_enemy_turns">> /\ calls' = calls
             /\ last'.who \in todo
    /\ visible' # visible =>
          (calls = <<"perform", "handle_enemy_turns">> /\ calls' = Append(calls, "update_fov"))

\* C3: in a turn of a successful player action the calls are, in this order
\* and once each, the action's perform, the enemy phase, the visibility
\* recompute and the player-alive test; monsters decide only inside the enemy
\* phase, and no input event is handled before the alive test is made.
C3_TurnOrder == []C3_Inv /\ [][C3_Step]_vars

C3_Witness ==
    /\ calls = HandleActionCalls /\ pc = "dispatch"
    /\ last.who \in Enemies /\ last.kind = "Movement" /\ last.exc = NoExc
    /\ visible # compute_fov(StartPos[Player])

\* The state part and the step part of C4.
AllChecks == <<"in_bounds", "walkable", "blocking_entity">>

C4_Inv ==
    (last.kind = "Movement" /\ last.who \in Actors) =>
        LET dest_x == pos[last.who][1] + last.dx
            dest_y == pos[last.who][2] + last.dy
        IN IF last.exc # NoExc
           THEN /\ last.exc = Blocked
                /\ IF ~in_bounds(dest_x, dest_y)
                   THEN last.checks = <<"in_bounds">>
                   ELSE IF ~walkable(dest_x, dest_y)
                   THEN last.checks = <<"in_bounds", "walkable">>
                   ELSE /\ last.checks = AllChecks
                        /\ get_blocking_entity_at_location(dest_x, dest_y) # {}
           ELSE /\ last.checks = AllChecks
                /\ in_bounds(pos[last.who][1], pos[last.who][2])
                /\ walkable(pos[last.who][1], pos[last.who][2])

C4_Step ==
    \A e \in Actors :
        (/\ IF e = Player THEN PlayerPerformStep ELSE EnemyDecisionStep(e)
         /\ last'.who = e /\ last'.kind = "Movement") =>
            /\ last'.exc = NoExc =>
                  /\ pos' = [pos EXCEPT ![e] = <<pos[e][1] + last'.dx, pos[e][2] + last'.dy>>]
                  /\ get_blocking_entity_at_location(pos'[e][1], pos'[e][2]) = {}
            /\ last'.exc # NoExc => pos' = pos

\* C4: Movement tests the destination in the order in bounds, tile walkable,
\* no blocking entity and stops at the first test that fails: each failure
\* raises the same Impossible, and only when all three pass is the entity
\* relocated, by exactly (dx, dy).
C4_MovementChecks == []C4_Inv /\ [][C4_Step]_vars

C4_Witness ==
    /\ last.who \in Enemies /\ last.kind = "Movement" /\ last.exc = Blocked
    /\ last.checks = AllChecks

\* The step part of C5.
C5_Step ==
    (/\ PlayerPerformStep
     /\ last'.kind \in {"Movement", "Melee", "Pickup"}
     /\ last'.exc # NoExc) =>
        /\ pos' = pos /\ hp' = hp /\ ai' = ai
        /\ inventory' = inventory /\ entities' = entities
        /\ visible' = visible /\ handler' = handler
        /\ last'.adds = 1
        /\ message_log' = Keep(add_message(message_log, Plain(last'.exc), "impossible", TRUE))

\* C5: when a Movement, Melee, Bump or Pickup of the player raises Impossible,
\* every position, hp, inventory, AI state and the map's entity set are what
\* they were before; the one change is the log addition of the failure reason.
C5_ImpossibleLeavesWorld == [][C5_Step]_vars

C5_Witness ==
    /\ last.who = Player /\ last.kind = "Pickup" /\ last.exc = InventoryFull
    /\ items # {}

\* The step part of C6.
PerformStep(e) == IF e = Player THEN PlayerPerformStep ELSE EnemyDecisionStep(e)
MeleeStep(e) ==
    PerformStep(e) /\ last'.who = e /\ last'.kind = "Melee" /\ last'.exc = NoExc
Damage(e, t) == FighterStats[e].power - FighterStats[t].defense

C6_Common(e, t) ==
    /\ t \in actors
    /\ pos[t] = <<pos[e][1] + last'.dx, pos[e][2] + last'.dy>>
    /\ last'.adds = 1
    /\ pos' = pos
    /\ \A o \in Actors \ {t} : hp'[o] = hp[o]
    /\ e = Player => pc' = "handle_enemy_turns"
    /\ Damage(e, t) > 0 =>
          LastEntry(message_log').plain_text = Text("attacks for", e, t, Damage(e, t))
    /\ Damage(e, t) <= 0 =>
          /\ hp'[t] = hp[t]
          /\ LastEntry(message_log').plain_text = Text("attacks but does no damage", e, t, 0)

C6_Step ==
    \A e \in Actors : MeleeStep(e) =>
        /\ C6_Common(e, last'.target)
        /\ Damage(e, last'.target) > 0 =>
              hp'[last'.target] = Max(0, hp[last'.target] - Damage(e, last'.target))

\* C6 (as amended): a Melee against the actor at the destination computes
\* damage = attacker.power - defender.defense; if damage > 0 the defender's hp
\* is reduced by that damage, but not below 0, and a message with the number
\* is logged; if damage <= 0 the hp is unchanged and a no-damage message is
\* logged; perform succeeds either way, so the turn is consumed, and no other
\* entity's hp or position changes.
C6_MeleeClamped == [][C6_Step]_vars

\* C6 as stated: the hp is reduced by exactly the damage.
C6_OriginalStep ==
    \A e \in Actors : MeleeStep(e) =>
        /\ C6_Common(e, last'.target)
        /\ Damage(e, last'.target) > 0 =>
              hp'[last'.target] = hp[last'.target] - Damage(e, last'.target)

C6_Original == [][C6_OriginalStep]_vars

C6_Witness ==
    /\ last.who = "orc" /\ last.kind = "Melee" /\ last.target = Player
    /\ hp[Player] = FighterStats[Player].max_hp - Damage("orc", Player)

\* The step part of C7.
C7_Step ==
    \A e \in Actors :
        (/\ PerformStep(e) /\ last'.who = e
         /\ last'.act \in {"Bump", "Confused"} /\ last'.kind # "Revert") =>
            LET dest == <<pos[e][1] + last'.dx, pos[e][2] + last'.dy>>
                occupied == \E a \in actors : pos[a] = dest
            IN /\ <<last'.dx, last'.dy>> \in MOVE_KEYS
               /\ last'.kind \in {"Melee", "Movement"}
               /\ (last'.kind = "Melee") = occupied
               /\ last'.kind = "Melee" => (last'.target \in actors /\ pos[last'.target] = dest)
               /\ last'.exc # NothingToAttack

\* C7: a Bump is resolved against the world as it is when perform runs: it
\* performs Melee exactly when a living actor stands on the destination, and
\* Movement otherwise; it never fails with "Nothing to attack.".
C7_BumpResolvedAtPerform == [][C7_Step]_vars

C7_Witness ==
    /\ last.who = "orc" /\ last.act = "Confused" /\ last.kind = "Melee"
    /\ last.target = "troll"

\* C8: Pickup transfers an item only if it lies on the acting actor's tile,
\* and with no item on that tile it fails with "There is nothing here to pick
\* up." even if items lie elsewhere on the map.
C8_PickupOnlyOwnTile ==
    (last.who = Player /\ last.kind = "Pickup") =>
        /\ last.exc = NoExc => pos[last.target] = pos[Player]
        /\ (last.exc # NoExc /\ \A i \in items : pos[i] # pos[Player]) =>
              last.exc = NothingHere

\* The state part and the step part of C9.
Range(sq) == {sq[i] : i \in DOMAIN sq}

C9_Inv ==
    /\ Len(inventory) <= InventoryCapacity
    /\ Cardinality(Range(inventory)) = Len(inventory)
    /\ Range(inventory) \cap entities = {}

C9_Step ==
    (PlayerPerformStep /\ last'.kind = "Pickup") =>
        IF last'.exc = NoExc
        THEN /\ last'.target \in items
             /\ inventory' = Append(inventory, last'.target)
             /\ entities' = entities \ {last'.target}
             /\ last'.adds = 1
        ELSE /\ inventory' = inventory /\ entities' = entities
             /\ (Len(inventory) >= InventoryCapacity /\ items # {}) => last'.exc = InventoryFull
             /\ last'.exc \in {InventoryFull, NothingHere}

\* C9: the inventory never holds more than its capacity; a successful Pickup
\* appends exactly one item to it and removes exactly that item from the
\* map's entity set, even when several items are available; with a full
\* inventory and an item available Pickup fails with "Your inventory is
\* full." and transfers nothing.
C9_PickupOneWithinCapacity == []C9_Inv /\ [][C9_Step]_vars

C9_Witness ==
    /\ last.who = Player /\ last.kind = "Pickup" /\ last.exc = NoExc
    /\ items # {} /\ Len(inventory) = InventoryCapacity

\* The state part and the step part of C10.
RevertText(e) == Text("is no longer confused", e, "", 0)

C10_Inv ==
    \A e \in Enemies : ai[e].kind = "confused" =>
        /\ confusion[e].n >= 0
        /\ ai[e].turns_remaining = confusion[e].n - confusion[e].decisions
        /\ ai[e].turns_remaining >= 0
        /\ ai[e].previous_ai = confusion[e].previous_ai

C10_Step ==
    \A e \in Enemies : EnemyDecisionStep(e) =>
        IF ai[e].kind = "confused"
        THEN IF confusion[e].decisions < confusion[e].n
             THEN /\ ai'[e] = [ai[e] EXCEPT !.turns_remaining = @ - 1]
                  /\ last'.kind \in {"Melee", "Movement"}
                  /\ <<last'.dx, last'.dy>> \in ConfusedDirections
                  /\ last'.adds = 0 \/ LastEntry(message_log').plain_text # RevertText(e)
             ELSE /\ confusion[e].decisions = confusion[e].n
                  /\ ai'[e] = confusion[e].previous_ai
                  /\ last'.kind = "Revert"
                  /\ last'.adds = 1
                  /\ LastEntry(message_log').plain_text = RevertText(e)
                  /\ pos' = pos /\ hp' = hp
        ELSE last'.kind # "Revert"

\* C10: a Confused AI created with turns_remaining = N >= 0 around AI P: each
\* of its first N decisions lowers the counter by one and issues one Bump in
\* one of the 8 compass directions, whether or not the Bump fails; decision
\* N + 1 logs one "no longer confused" message, makes P the actor's AI and
\* neither moves nor attacks; no other decision logs that message.
C10_ConfusionCountdown == []C10_Inv /\ [][C10_Step]_vars

C10_Witness ==
    /\ last.who = "orc" /\ last.kind = "Revert"
    /\ confusion["orc"].n = MaxTurns
    /\ confusion["orc"].decisions = MaxTurns + 1
    /\ ai["orc"] = ChasingAI

\* -------------------------------------------------------------------------
\* Hostile AI
\* -------------------------------------------------------------------------
HostileStep(e) == EnemyDecisionStep(e) /\ ai[e].kind = "hostile"

\* The step part of C11.
C11_Step ==
    \A e \in Enemies : (HostileStep(e) /\ pos[e] \notin visible) =>
        /\ last'.who = e
        /\ hp' = hp
        /\ IF ai[e].path # <<>>
           THEN /\ last'.kind = "Movement"
                /\ <<pos[e][1] + last'.dx, pos[e][2] + last'.dy>> = Head(ai[e].path)
                /\ ai'[e] = HostileAI(Tail(ai[e].path))
           ELSE /\ last'.kind = "Wait"
                /\ ai'[e] = ai[e]
                /\ pos' = pos

\* C11: a Hostile actor whose own tile is not in the visible set issues no
\* Melee and computes no new path in that decision, at any distance from the
\* player: it takes the next step of the path it had cached, or waits when
\* that path is empty.
C11_UnseenHostileKeepsPath == [][C11_Step]_vars

\* An unseen hostile actor next to the player has just decided, without a Melee.
C11_Witness ==
    /\ pc = "handle_enemy_turns"
    /\ last.who \in Enemies /\ last.act = "Hostile"
    /\ last.kind = "Wait"
    /\ pos[last.who] \notin visible
    /\ Chebyshev(pos[last.who], pos[Player]) <= 1

\* The shared-tile start: the level generator is not bound to keep the player
\* and a monster on different tiles.
InitShared ==
    /\ width = Width
    /\ height = Height
    /\ pos = [StartPos EXCEPT !["orc"] = StartPos[Player]]
    /\ hp = [a \in Actors |-> FighterStats[a].max_hp]
    /\ ai = [a \in Actors |-> HostileAI(<<>>)]
    /\ confusion = [e \in Enemies |-> NotConfused]
    /\ entities = Entities
    /\ inventory = <<>>
    /\ visible = compute_fov(StartPos[Player])
    /\ message_log = <<>>
    /\ handler = "MainGame"
    /\ pc = "dispatch"
    /\ todo = {}
    /\ calls = <<>>
    /\ last = NoLast
    /\ NoUI
    /\ save_file = FALSE

SpecShared == InitShared /\ [][Next]_vars

\* The step part of C12.
C12_Step ==
    \A e \in Enemies :
        (/\ HostileStep(e)
         /\ is_alive(Player, ai)
         /\ pos[e] \in visible
         /\ Chebyshev(pos[e], pos[Player]) <= 1) =>
            /\ last'.who = e /\ last'.kind = "Melee" /\ last'.exc = NoExc
            /\ last'.target = Player
            /\ \A a \in Actors \ {Player} : hp'[a] = hp[a]
            /\ pos' = pos
            /\ ai'[e] = ai[e]

\* C12: a Hostile actor whose own tile is visible and whose Chebyshev distance
\* to the (living) player is at most 1, distance 0 (a shared tile) included,
\* performs a Melee whose target is the player: only the player's hp can
\* change, the actor does not move and its cached path is left as it was.
C12_SeenHostileStrikesPlayer == [][C12_Step]_vars

\* -------------------------------------------------------------------------
\* A level without monsters: the start of the specifications of the input
\* handlers. log is the message log at that moment, w and h the map size,
\* inv the items the player carries.
\* -------------------------------------------------------------------------
Held(inv) == {inv[i] : i \in DOMAIN inv}

InitQuiet(w, h, log, inv) ==
    /\ width = w
    /\ height = h
    /\ pos = StartPos
    /\ hp = [a \in Actors |-> FighterStats[a].max_hp]
    /\ ai = [a \in Actors |-> HostileAI(<<>>)]
    /\ confusion = [e \in Enemies |-> NotConfused]
    /\ entities = ({Player} \cup Items) \ Held(inv)
    /\ inventory = inv
    /\ visible = compute_fov(StartPos[Player])
    /\ message_log = log
    /\ handler = "MainGame"
    /\ pc = "dispatch"
    /\ todo = {}
    /\ calls = <<>>
    /\ last = NoLast
    /\ NoUI
    /\ save_file = FALSE

\* -------------------------------------------------------------------------
\* HistoryViewer
\* -------------------------------------------------------------------------
\* A message log of n entries, no two adjacent ones alike.
LogOf(n) == [i \in 1 .. n |-> Message(Text("entry", "", "", i), "white")]

CURSOR_Y_KEYS ==
    [sym \in {"K_UP", "K_DOWN", "K_PAGEUP", "K_PAGEDOWN"} |->
        CASE sym = "K_UP" -> -1
          [] sym = "K_DOWN" -> 1
          [] sym = "K_PAGEUP" -> -10
          [] sym = "K_PAGEDOWN" -> 10]

HistoryKeys == DOMAIN CURSOR_Y_KEYS \cup {"K_HOME", "K_END"}

\* HistoryViewer.ev_keydown without the two wrap-around branches.
HistoryCursor_NoWrap(sym, c, n) ==
    IF sym \in DOMAIN CURSOR_Y_KEYS
    THEN Max(0, Min(c + CURSOR_Y_KEYS[sym], n - 1))
    ELSE IF sym = "K_HOME" THEN 0
    ELSE n - 1

\* HistoryViewer.ev_keydown without the clamp of the last branch.
HistoryCursor_NoClamp(sym, c, n) ==
    IF sym \in DOMAIN CURSOR_Y_KEYS
    THEN LET adjust == CURSOR_Y_KEYS[sym]
         IN IF adjust < 0 /\ c = 0 THEN n - 1
            ELSE IF adjust > 0 /\ c = n - 1 THEN 0
            ELSE c + adjust
    ELSE IF sym = "K_HOME" THEN 0
    ELSE n - 1

\* HistoryViewer.ev_keydown: the cursor after key sym, from cursor c with
\* log_length n.
HistoryCursor(sym, c, n) ==
    IF sym \in DOMAIN CURSOR_Y_KEYS
    THEN LET adjust == CURSOR_Y_KEYS[sym]
         IN IF adjust < 0 /\ c = 0 THEN n - 1
            ELSE IF adjust > 0 /\ c = n - 1 THEN 0
            ELSE Max(0, Min(c + adjust, n - 1))
    ELSE IF sym = "K_HOME" THEN 0
    ELSE n - 1

\* MainGameEventHandler.ev_keydown, K_v: HistoryViewer.__init__.
HistoryKey ==
    /\ pc = "dispatch" /\ handler = "MainGame"
    /\ SwitchTo("HistoryViewer")
    /\ log_length' = Len(message_log)
    /\ cursor' = Len(message_log) - 1
    /\ event' = Ev("keydown", "K_v")
    /\ UNCHANGED <<width, height, mouse_location, callback, save_file>>

\* A cursor key, Home or End: the cursor moves, ev_keydown returns None.
HistoryCursorKey(sym) ==
    /\ pc = "dispatch" /\ handler = "HistoryViewer"
    /\ sym \in HistoryKeys
    /\ cursor' = HistoryCursor(sym, cursor, log_length)
    /\ NoAction
    /\ event' = Ev("keydown", sym)
    /\ UNCHANGED <<width, height, mouse_location, log_length, callback, save_file>>

\* Any other key: back to the main handler.
HistoryOtherKey ==
    /\ pc = "dispatch" /\ handler = "HistoryViewer"
    /\ SwitchTo("MainGame")
    /\ event' = Ev("keydown", "other")
    /\ UNCHANGED <<width, height, mouse_location, cursor, log_length, callback,
                   save_file>>

InitHistory == \E n \in 0 .. MaxHistory : InitQuiet(Width, Height, LogOf(n), <<>>)

NextHistory ==
    \/ HistoryKey
    \/ \E sym \in HistoryKeys : HistoryCursorKey(sym)
    \/ HistoryOtherKey

SpecHistory == InitHistory /\ [][NextHistory]_vars

\* What a step that is not a game turn leaves alone.
WorldUnchanged ==
    UNCHANGED <<pos, hp, ai, entities, inventory, visible, message_log, todo, pc>>

\* A key pressed in the HistoryViewer over a log that is not empty.
HistoryKeyStep == handler = "HistoryViewer" /\ log_length >= 1 /\ event' # event

\* What C13 says of every key but PageUp and PageDown.
C13_Common ==
    LET c == cursor
        n == log_length
        sym == event'.sym
    IN /\ sym = "K_UP" => cursor' = IF c = 0 THEN n - 1 ELSE c - 1
       /\ sym = "K_DOWN" => cursor' = IF c = n - 1 THEN 0 ELSE c + 1
       /\ sym = "K_HOME" => cursor' = 0
       /\ sym = "K_END" => cursor' = n - 1
       /\ sym \in HistoryKeys => (handler' = "HistoryViewer" /\ log_length' = n)
       /\ sym \notin HistoryKeys => handler' = "MainGame"
       /\ WorldUnchanged

C13_Step ==
    HistoryKeyStep =>
        /\ C13_Common
        /\ event'.sym = "K_PAGEUP" =>
              cursor' = IF cursor = 0 THEN log_length - 1 ELSE Max(0, cursor - 10)
        /\ event'.sym = "K_PAGEDOWN" =>
              cursor' = IF cursor = log_length - 1 THEN 0
                        ELSE Min(log_length - 1, cursor + 10)

\* C13 (as amended): in the HistoryViewer with snapshot count n >= 1, Up gives
\* n-1 if c = 0 else c-1; Down gives 0 if c = n-1 else c+1; PageUp gives n-1
\* if c = 0 else max(0, c-10); PageDown gives 0 if c = n-1 else
\* min(n-1, c+10); Home gives 0; End gives n-1; each of these keys keeps the
\* HistoryViewer, and any other key switches to MainGame without changing the
\* world.
C13_HistoryKeys == [][C13_Step]_vars

C13_OriginalStep ==
    HistoryKeyStep =>
        /\ C13_Common
        /\ event'.sym = "K_PAGEUP" => cursor' = Max(0, cursor - 10)
        /\ event'.sym = "K_PAGEDOWN" => cursor' = Min(log_length - 1, cursor + 10)

\* C13 as stated: PageUp gives max(0, c-10) and PageDown min(n-1, c+10) from
\* every cursor, the two ends included.
C13_Original == [][C13_OriginalStep]_vars

\* PageUp pressed at the top of a log of more than ten entries.
C13_Witness ==
    /\ handler = "HistoryViewer" /\ event.sym = "K_PAGEUP"
    /\ log_length > 10 /\ cursor = log_length - 1

\* C14 (as amended): in the HistoryViewer the cursor is an index in
\* [0, count) whenever the count snapshotted on entry is at least 1, on entry
\* and after every sequence of Up, Down, PageUp, PageDown, Home and End; over
\* an empty log it is -1 on entry and -1 or 0 afterwards.
C14_CursorInRange ==
    handler = "HistoryViewer" =>
        /\ log_length = Len(message_log)
        /\ IF log_length >= 1
           THEN 0 <= cursor /\ cursor < log_length
           ELSE /\ cursor \in {-1, 0}
                /\ event.sym = "K_v" => cursor = -1

\* C14 as stated: the cursor is in [0, count) for every count.
C14_Original ==
    handler = "HistoryViewer" => (0 <= cursor /\ cursor < log_length)

\* A key pressed in the viewer of an empty log has moved the cursor to 0.
C14_Witness ==
    /\ handler = "HistoryViewer" /\ log_length = 0 /\ cursor = 0
    /\ event.sym \in HistoryKeys

\* -------------------------------------------------------------------------
\* SelectIndexHandler: LookHandler, SingleRangedAttackHandler,
\* AreaRangedAttackHandler
\* -------------------------------------------------------------------------
TargetHandlers == {"Look", "Single", "Area"}

ShiftFactor == 5
CtrlFactor == 10
AltFactor == 20

\* The modifier keys an event can carry (left or right, alike).
Modifiers == SUBSET {"shift", "ctrl", "alt"}

\* SelectIndexHandler.ev_keydown with the factors added up.
MoveCursor_Additive(loc, d, mods) ==
    LET modifier == IF mods = {} THEN 1
                    ELSE (IF "shift" \in mods THEN ShiftFactor ELSE 0)
                         + (IF "ctrl" \in mods THEN CtrlFactor ELSE 0)
                         + (IF "alt" \in mods THEN AltFactor ELSE 0)
    IN <<Max(0, Min(loc[1] + d[1] * modifier, width - 1)),
         Max(0, Min(loc[2] + d[2] * modifier, height - 1))>>

\* SelectIndexHandler.ev_keydown, a movement key: the cursor after the key
\* with direction d and modifiers mods, from cursor loc.
MoveCursor(loc, d, mods) ==
    LET modifier == (IF "shift" \in mods THEN ShiftFactor ELSE 1)
                    * (IF "ctrl" \in mods THEN CtrlFactor ELSE 1)
                    * (IF "alt" \in mods THEN AltFactor ELSE 1)
    IN <<Max(0, Min(loc[1] + d[1] * modifier, width - 1)),
         Max(0, Min(loc[2] + d[2] * modifier, height - 1))>>

\* MainGameEventHandler.ev_keydown, K_SLASH: SelectIndexHandler.__init__.
LookKey ==
    /\ pc = "dispatch" /\ handler = "MainGame"
    /\ SwitchTo("Look")
    /\ mouse_location' = pos[Player]
    /\ callback' = NoCallback
    /\ event' = Ev("keydown", "K_SLASH")
    /\ UNCHANGED <<width, height, cursor, log_length, save_file>>

\* InventoryActivateHandler.on_item_selected for an item whose consumable
\* asks for a target: get_action returns a targeting handler of the given
\* kind, whose callback makes the ItemAction of that item.
TargetedItemKey(index, kind) ==
    /\ pc = "dispatch" /\ handler = "InventoryActivate"
    /\ index \in K_a_Range /\ SlotPresent(index)
    /\ kind \in {"Single", "Area"}
    /\ SwitchTo(kind)
    /\ mouse_location' = pos[Player]
    /\ callback' = [item |-> inventory[index + 1], args |-> <<>>]
    /\ event' = Ev("keydown", "letter")
    /\ UNCHANGED <<width, height, cursor, log_length, save_file>>

\* A movement key in a targeting handler: the cursor pans, None is returned.
TargetMoveKey(d, mods) ==
    /\ pc = "dispatch" /\ handler \in TargetHandlers
    /\ mouse_location' = MoveCursor(mouse_location, d, mods)
    /\ NoAction
    /\ callback' = [callback EXCEPT !.args = <<>>]
    /\ event' = [Ev("keydown", "move") EXCEPT !.dx = d[1], !.dy = d[2], !.mods = mods]
    /\ UNCHANGED <<width, height, cursor, log_length, save_file>>

\* The tiles a mouse event can carry: inside the map and just outside it.
MouseTiles == {-1, 0, 1, width - 1, width} \X {-1, 0, height - 1, height}

\* EventHandler.ev_mousemotion.
MouseMotion(tile) ==
    /\ pc = "dispatch" /\ handler \in TargetHandlers \cup {"MainGame", "GameOver"}
    /\ tile \in MouseTiles
    /\ mouse_location' = IF in_bounds(tile[1], tile[2]) THEN tile ELSE mouse_location
    /\ NoAction
    /\ callback' = [callback EXCEPT !.args = <<>>]
    /\ event' = [Ev("mousemotion", "none") EXCEPT !.x = tile[1], !.y = tile[2]]
    /\ UNCHANGED <<width, height, cursor, log_length, save_file>>

\* AskUserEventHandler.ev_keydown in a targeting handler: a modifier key is
\* ignored.
TargetModifierKey ==
    /\ pc = "dispatch" /\ handler \in TargetHandlers
    /\ NoAction
    /\ callback' = [callback EXCEPT !.args = <<>>]
    /\ event' = Ev("keydown", "modifier")
    /\ UNCHANGED <<width, height, mouse_location, cursor, log_length, save_file>>

\* Any key that is no movement, confirm or modifier key: on_exit.
TargetOtherKey ==
    /\ pc = "dispatch" /\ handler \in TargetHandlers
    /\ SwitchTo("MainGame")
    /\ callback' = [callback EXCEPT !.args = <<>>]
    /\ event' = Ev("keydown", "other")
    /\ UNCHANGED <<width, height, mouse_location, cursor, log_length, save_file>>

\* on_index_selected(x, y): the LookHandler returns the main handler; the
\* two attack handlers call the callback, whose value is None or the
\* ItemAction that handle_action then performs.
OnIndexSelected(xy) ==
    IF handler = "Look"
    THEN /\ SwitchTo("MainGame")
         /\ callback' = [callback EXCEPT !.args = <<>>]
    ELSE /\ callback' = [callback EXCEPT !.args = <<xy>>]
         /\ \E outcome \in {"none", "ok", "impossible"} :
               IF outcome = "none"
               THEN NoAction
               ELSE HandleAction("Item", ItemAction(Player, callback.item, outcome))

\* SelectIndexHandler.ev_keydown, a confirm key.
TargetConfirmKey ==
    /\ pc = "dispatch" /\ handler \in TargetHandlers
    /\ OnIndexSelected(mouse_location)
    /\ event' = Ev("keydown", "confirm")
    /\ UNCHANGED <<width, height, mouse_location, cursor, log_length, save_file>>

\* SelectIndexHandler.ev_mousebuttondown.
TargetMouseClick(tile, button) ==
    /\ pc = "dispatch" /\ handler \in TargetHandlers
    /\ tile \in MouseTiles /\ button \in {1, 2, 3}
    /\ IF in_bounds(tile[1], tile[2]) /\ button = 1
       THEN OnIndexSelected(tile)
       ELSE /\ SwitchTo("MainGame")
            /\ callback' = [callback EXCEPT !.args = <<>>]
    /\ event' = [Ev("mousebuttondown", "none") EXCEPT
                    !.x = tile[1], !.y = tile[2], !.button = button]
    /\ UNCHANGED <<width, height, mouse_location, cursor, log_length, save_file>>

\* Panning on a wide map: the player carries the scroll, and no selection is
\* confirmed.
InitCursor == InitQuiet(TargetMapWidth, Height, <<>>, <<"scroll">>)

NextCursor ==
    \/ LookKey
    \/ InventoryKey
    \/ ActivateOtherKey
    \/ \E index \in K_a_Range, kind \in {"Single", "Area"} : TargetedItemKey(index, kind)
    \/ \E d \in MOVE_KEYS, mods \in Modifiers : TargetMoveKey(d, mods)
    \/ \E tile \in MouseTiles : MouseMotion(tile)
    \/ TargetModifierKey
    \/ TargetOtherKey

SpecCursor == InitCursor /\ [][NextCursor]_vars

\* The state part of C15: the cursor of a targeting handler is on the map.
C15_Inv == handler \in TargetHandlers => in_bounds(mouse_location[1], mouse_location[2])

\* The step part of C15.
C15_Step ==
    LET m == (IF "shift" \in event'.mods THEN 5 ELSE 1)
             * (IF "ctrl" \in event'.mods THEN 10 ELSE 1)
             * (IF "alt" \in event'.mods THEN 20 ELSE 1)
        x == mouse_location[1] + event'.dx * m
        y == mouse_location[2] + event'.dy * m
    IN /\ (handler \notin TargetHandlers /\ handler' \in TargetHandlers) =>
             mouse_location' = pos[Player]
       /\ (handler \in TargetHandlers /\ event' # event /\ event'.sym = "move") =>
             /\ <<event'.dx, event'.dy>> \in MOVE_KEYS
             /\ mouse_location' =
                   <<IF x < 0 THEN 0 ELSE IF x > width - 1 THEN width - 1 ELSE x,
                     IF y < 0 THEN 0 ELSE IF y > height - 1 THEN height - 1 ELSE y>>
       /\ (handler \in TargetHandlers /\ event' # event
           /\ (event'.sym = "move" \/ event'.type = "mousemotion")) =>
             /\ handler' = handler
             /\ calls' = <<>>
             /\ WorldUnchanged

\* C15: on entry to a targeting handler (Look, Single, Area) the cursor is the
\* player's position; a movement key moves it by direction x m, m the product
\* of 5 for shift, 10 for ctrl and 20 for alt (1 with none held), each
\* coordinate clamped to the map; after any sequence of movement keys and
\* mouse motions the cursor is on the map, and panning neither changes the
\* handler nor consumes a turn.
C15_CursorPanning == []C15_Inv /\ [][C15_Step]_vars

\* Shift and ctrl held with the right key, from the left edge: 50 cells.
C15_Witness ==
    /\ handler = "Single" /\ event.sym = "move" /\ event.mods = {"shift", "ctrl"}
    /\ event.dx = 1 /\ mouse_location[1] = 50

\* -------------------------------------------------------------------------
\* Selecting a target on the small map: the scroll carried, no monsters
\* -------------------------------------------------------------------------
InitSelect == InitQuiet(Width, Height, <<>>, <<"scroll">>)

NextSelect ==
    \/ LookKey
    \/ InventoryKey
    \/ ActivateOtherKey
    \/ \E index \in K_a_Range, kind \in {"Single", "Area"} : TargetedItemKey(index, kind)
    \/ \E d \in MOVE_KEYS : TargetMoveKey(d, {})
    \/ \E tile \in MouseTiles : MouseMotion(tile)
    \/ TargetModifierKey
    \/ TargetOtherKey
    \/ TargetConfirmKey
    \/ \E tile \in MouseTiles, button \in {1, 2, 3} : TargetMouseClick(tile, button)
    \/ HandleEnemyTurns
    \/ EnemyPhaseDone
    \/ UpdateFov
    \/ AliveCheck

SpecSelect == InitSelect /\ [][NextSelect]_vars

\* An event handled by a Single or Area targeting handler.
AttackTargeting == handler \in {"Single", "Area"} /\ pc = "dispatch" /\ event' # event

\* The confirm key: one call, with the cursor.
C16_Confirm ==
    (AttackTargeting /\ event'.sym = "confirm") =>
        callback'.args = <<mouse_location>>

\* A click out of bounds or of another button: no call, back to MainGame.
C16_Cancel ==
    (AttackTargeting /\ event'.type = "mousebuttondown"
     /\ ~(in_bounds(event'.x, event'.y) /\ event'.button = 1)) =>
        /\ callback'.args = <<>>
        /\ handler' = "MainGame"
        /\ calls' = <<>>

\* A left click in bounds: one call, with the cursor.
C16_ClickAtCursor ==
    (AttackTargeting /\ event'.type = "mousebuttondown"
     /\ in_bounds(event'.x, event'.y) /\ event'.button = 1) =>
        callback'.args = <<mouse_location>>

C16_Step == C16_Confirm /\ C16_Cancel /\ C16_ClickAtCursor

\* C16: in a Single or Area targeting state a confirm key and a left click in
\* bounds both invoke the stored callback exactly once with the coordinate of
\* the handler's cursor at that moment; a click out of bounds or not of the
\* left button invokes no callback and leaves for MainGame.
C16_SelectionAtCursor == [][C16_Step]_vars

\* -------------------------------------------------------------------------
\* InventoryEventHandler with the key pressed on record: InventoryActivate
\* and InventoryDrop on a level without monsters
\* -------------------------------------------------------------------------
InventoryHandlers == {"InventoryActivate", "InventoryDrop"}

\* The keys pressed, as event.sym - K_a: the letters a..z are 0..25, and the
\* keys next to them on either side.
KeyIndices == -1 .. 27

\* Inventory.drop(item): the item leaves the inventory and lies on the map at
\* the actor's position.
DropItem(e, item) ==
    [Result("Drop") EXCEPT
        !.target = item,
        !.inventory = SelectSeq(inventory, LAMBDA i : i # item),
        !.entities = entities \cup {item},
        !.pos = [pos EXCEPT ![item] = pos[e]]]

\* MainGameEventHandler.ev_keydown, K_d.
DropKey ==
    /\ pc = "dispatch" /\ handler = "MainGame"
    /\ SwitchTo("InventoryDrop")
    /\ event' = Ev("keydown", "K_d")
    /\ UNCHANGED <<width, height, mouse_location, cursor, log_length, callback, save_file>>

\* MainGameEventHandler.ev_keydown, K_i.
ActivateKey ==
    /\ pc = "dispatch" /\ handler = "MainGame"
    /\ SwitchTo("InventoryActivate")
    /\ event' = Ev("keydown", "K_i")
    /\ UNCHANGED <<width, height, mouse_location, cursor, log_length, callback, save_file>>

\* InventoryEventHandler.ev_keydown for the key K_a + index that is not a
\* modifier key.
InventoryKeyDown(index) ==
    /\ pc = "dispatch" /\ handler \in InventoryHandlers
    /\ index \in KeyIndices
    /\ IF 0 <= index /\ index <= 26
       THEN IF SlotPresent(index)
            THEN IF handler = "InventoryActivate"
                 THEN \E outcome \in {"ok", "impossible"} :
                         HandleAction("Item", ItemAction(Player, inventory[index + 1], outcome))
                 ELSE HandleAction("Drop", DropItem(Player, inventory[index + 1]))
            ELSE /\ message_log' = Keep(add_message(message_log, Plain("Invalid entry."),
                                                    "invalid", TRUE))
                 /\ calls' = <<>>
                 /\ last' = [NoLast EXCEPT !.act = "None", !.adds = 1]
                 /\ UNCHANGED <<pos, hp, ai, entities, inventory, visible, handler, pc,
                                todo, confusion>>
       ELSE SwitchTo("MainGame")
    /\ event' = [Ev("keydown", "key") EXCEPT !.index = index]
    /\ UNCHANGED <<width, height, mouse_location, cursor, log_length, callback, save_file>>

\* AskUserEventHandler.ev_keydown: a modifier key is ignored.
InventoryModifierKey ==
    /\ pc = "dispatch" /\ handler \in InventoryHandlers
    /\ NoAction
    /\ event' = Ev("keydown", "modifier")
    /\ UNCHANGED <<width, height, mouse_location, cursor, log_length, callback, save_file>>

\* AskUserEventHandler.ev_mousebuttondown: on_exit.
InventoryMouseClick(button) ==
    /\ pc = "dispatch" /\ handler \in InventoryHandlers
    /\ button \in {1, 2, 3}
    /\ SwitchTo("MainGame")
    /\ event' = [Ev("mousebuttondown", "none") EXCEPT !.button = button]
    /\ UNCHANGED <<width, height, mouse_location, cursor, log_length, callback, save_file>>

InitInv == InitQuiet(Width, Height, <<>>, <<>>)

NextInv ==
    \/ PickupKey
    \/ ActivateKey
    \/ DropKey
    \/ \E index \in KeyIndices : InventoryKeyDown(index)
    \/ InventoryModifierKey
    \/ \E button \in {1, 2, 3} : InventoryMouseClick(button)
    \/ HandleEnemyTurns
    \/ EnemyPhaseDone
    \/ UpdateFov
    \/ AliveCheck

SpecInv == InitInv /\ [][NextInv]_vars

\* A key other than a modifier key pressed in an Inventory state.
InventoryKeyStep ==
    /\ handler \in InventoryHandlers /\ pc = "dispatch"
    /\ event' # event /\ event'.sym = "key"

\* The letter of a slot that holds an item: the action of that item.
C17_Present ==
    (InventoryKeyStep /\ event'.index \in 0 .. 25 /\ event'.index < Len(inventory)) =>
        /\ calls' = <<"perform">>
        /\ last'.target = inventory[event'.index + 1]
        /\ last'.act = IF handler = "InventoryActivate" THEN "Item" ELSE "Drop"

\* The letter of an empty slot: the notice, and nothing else.
C17_Empty ==
    (InventoryKeyStep /\ event'.index \in 0 .. 25 /\ event'.index >= Len(inventory)) =>
        /\ LastEntry(message_log').plain_text = Plain("Invalid entry.")
        /\ LastEntry(message_log').fg = "invalid"
        /\ handler' = handler
        /\ calls' = <<>>
        /\ UNCHANGED <<pos, hp, ai, entities, inventory, visible, todo, pc>>

\* A key outside a..z: no action of an item and no notice.
C17_NoOtherSlotKey ==
    (InventoryKeyStep /\ event'.index \notin 0 .. 25) =>
        /\ calls' = <<>>
        /\ message_log' = message_log

C17_Step == C17_Present /\ C17_Empty /\ C17_NoOtherSlotKey

\* C17: in the Inventory states exactly the 26 letter keys a..z select slots
\* 0..25: a letter whose slot holds an item yields that item's action (its
\* use in InventoryActivate, DropItem in InventoryDrop); a letter whose slot is
\* empty logs the invalid-entry notice, keeps the state and consumes no turn;
\* no key outside a..z is treated as a slot selection.
C17_LettersSelectSlots == [][C17_Step]_vars

\* A key that is no slot letter, or a mouse click, in an Inventory state.
C18_Cancelling ==
    /\ handler \in InventoryHandlers /\ pc = "dispatch" /\ event' # event
    /\ \/ event'.type = "mousebuttondown"
       \/ event'.sym = "modifier"
       \/ event'.sym = "key" /\ event'.index \notin 0 .. 25

C18_Step ==
    C18_Cancelling =>
        /\ handler' = "MainGame"
        /\ calls' = <<>>
        /\ WorldUnchanged

\* C18: in the Inventory states every key that is not a slot letter, and
\* every mouse click, switches to MainGame without performing an action,
\* running the enemy phase or changing the world.
C18_CancelByDefault == [][C18_Step]_vars

\* -------------------------------------------------------------------------
\* main: termination and faults
\* -------------------------------------------------------------------------
\* BaseEventHandler.ev_quit and MainGameEventHandler's K_ESCAPE raise
\* SystemExit; GameOverEventHandler.on_quit raises QuitWithoutSaving.
SystemExit == "SystemExit"
QuitWithoutSaving == "QuitWithoutSaving"

\* on_quit that leaves the save file alone.
on_quit_KeepFile(exists) ==
    [raised |-> QuitWithoutSaving, file |-> exists, calls |-> <<>>]

\* GameOverEventHandler.on_quit: the exception raised, whether savegame.sav
\* exists afterwards, and the call made.
on_quit(exists) ==
    [raised |-> QuitWithoutSaving, file |-> FALSE,
     calls |-> IF exists THEN <<"remove">> ELSE <<>>]

\* Raising SystemExit: BaseEventHandler.ev_quit, and K_ESCAPE in the
\* MainGameEventHandler.
raise_SystemExit(exists) == [raised |-> SystemExit, file |-> exists, calls |-> <<>>]

\* main's except clauses around the loop, the active handler one with an
\* engine: QuitWithoutSaving is raised again as it is, any other exception
\* after save_game.
OnExit(q) ==
    IF q.raised = QuitWithoutSaving
    THEN q
    ELSE [q EXCEPT !.file = TRUE, !.calls = Append(@, "save_as")]

\* The exception leaves main: the loop is over.
Terminate(q) ==
    /\ save_file' = OnExit(q).file
    /\ calls' = OnExit(q).calls
    /\ pc' = "exit"
    /\ last' = [NoLast EXCEPT !.act = "quit", !.exc = Plain(q.raised)]
    /\ UNCHANGED <<pos, hp, ai, entities, inventory, visible, message_log, handler, todo,
                   confusion>>
    /\ UNCHANGED <<width, height, mouse_location, cursor, log_length, callback>>

\* The window's quit event.
QuitEvent ==
    /\ pc = "dispatch"
    /\ IF handler = "GameOver"
       THEN Terminate(on_quit(save_file))
       ELSE Terminate(raise_SystemExit(save_file))
    /\ event' = Ev("quit", "none")

\* K_ESCAPE in the two handlers that treat it as a quit request.
EscapeKey ==
    /\ pc = "dispatch" /\ handler \in {"MainGame", "GameOver"}
    /\ IF handler = "GameOver"
       THEN Terminate(on_quit(save_file))
       ELSE Terminate(raise_SystemExit(save_file))
    /\ event' = Ev("keydown", "K_ESCAPE")

Traceback == Plain("Traceback")

\* A fault that ends the loop as an unexpected exception would.
Fault_Fatal ==
    /\ pc # "exit"
    /\ Terminate([raised |-> "Exception", file |-> save_file, calls |-> <<>>])
    /\ event' = Ev("fault", "none")

\* An exception that is neither Impossible nor a termination signal, raised
\* at any point of handle_events: the rest of the event is abandoned, the
\* assignment to handler does not happen, the traceback is logged.
Fault ==
    /\ pc # "exit"
    /\ message_log' = Keep(add_message(message_log, Traceback, "error", TRUE))
    /\ pc' = "dispatch"
    /\ todo' = {}
    /\ calls' = <<>>
    /\ last' = [NoLast EXCEPT !.act = "fault", !.adds = 1]
    /\ event' = Ev("fault", "none")
    /\ UNCHANGED <<pos, hp, ai, entities, inventory, visible, handler, confusion>>
    /\ UNCHANGED <<width, height, mouse_location, cursor, log_length, callback, save_file>>

\* A save of an earlier session may lie on disk.
InitMain == \E exists \in BOOLEAN :
    /\ width = Width
    /\ height = Height
    /\ pos = StartPos
    /\ hp = [a \in Actors |-> FighterStats[a].max_hp]
    /\ ai = [a \in Actors |-> HostileAI(<<>>)]
    /\ confusion = [e \in Enemies |-> NotConfused]
    /\ entities = Entities
    /\ inventory = <<>>
    /\ visible = compute_fov(StartPos[Player])
    /\ message_log = <<>>
    /\ handler = "MainGame"
    /\ pc = "dispatch"
    /\ todo = {}
    /\ calls = <<>>
    /\ last = NoLast
    /\ NoUI
    /\ save_file = exists

NextMain ==
    \/ \E d \in MOVE_KEYS : MoveKey(d)
    \/ WaitKey
    \/ InventoryKey
    \/ ActivateOtherKey
    \/ GameOverKey
    \/ HandleEnemyTurns
    \/ \E e \in Enemies : EnemyTurn(e)
    \/ EnemyPhaseDone
    \/ UpdateFov
    \/ AliveCheck
    \/ QuitEvent
    \/ EscapeKey
    \/ Fault

SpecMain == InitMain /\ [][NextMain]_vars

\* A quit request: the quit event in any state, K_ESCAPE in MainGame and
\* GameOver.
QuitRequest ==
    /\ pc = "dispatch" /\ event' # event
    /\ (event'.type = "quit" \/ event'.sym = "K_ESCAPE")

C19_Step ==
    /\ (QuitRequest /\ handler = "GameOver") =>
          /\ calls' = IF save_file THEN <<"remove">> ELSE <<>>
          /\ last'.exc = Plain("QuitWithoutSaving")
          /\ pc' = "exit"
          /\ ~save_file'
    /\ (QuitRequest /\ handler # "GameOver") =>
          /\ calls' = <<"save_as">>
          /\ pc' = "exit"
          /\ save_file'

\* Once main is left nothing happens any more.
C19_Inv ==
    (pc = "exit" /\ handler = "GameOver" /\ last.exc = Plain("QuitWithoutSaving")) =>
        ~save_file

\* C19: a quit request (quit event or escape key) in the GameOver state removes
\* the save file if it exists and propagates QuitWithoutSaving; main does not
\* save on that path, so no save file exists once the process has ended. A
\* termination from any other state with an engine saves the game.
C19_GameOverQuitDeletesSave == []C19_Inv /\ [][C19_Step]_vars

\* The concluded run whose save lay on disk has been quit.
C19_Witness ==
    /\ pc = "exit" /\ handler = "GameOver" /\ calls = <<"remove">>
    /\ ~is_alive(Player, ai) /\ ~save_file

C20_Step ==
    (event' # event /\ event'.type = "fault") =>
        /\ pc' = "dispatch"
        /\ handler' = handler
        /\ message_log' # <<>>
        /\ LastEntry(message_log').plain_text = Plain("Traceback")
        /\ LastEntry(message_log').fg = "error"
        /\ save_file' = save_file

\* C20: an exception other than Impossible and the termination signals,
\* raised while an input event is processed, does not end the main loop: the
\* traceback goes to the message log in the error color (the handler having
\* an engine), the active handler stays the one before the event, and the
\* loop reads input again.
C20_FaultKeepsLoop == [][C20_Step]_vars

\* A fault in the middle of the enemy phase, and the next key accepted.
C20_Witness ==
    /\ event.type = "fault" /\ pc = "handle_enemy_turns"
    /\ message_log # <<>> /\ LastEntry(message_log).fg = "error"

\* -------------------------------------------------------------------------
\* MessageLog on its own: the whole log, every add_message call on record
\* -------------------------------------------------------------------------
LogTexts == {Plain("a"), Plain("b")}
LogColours == {"white", "error"}

\* One call of MessageLog.add_message; calls keeps the arguments.
AddMessage(text, fg, stack) ==
    /\ Len(calls) < MaxAdds
    /\ message_log' = add_message(message_log, text, fg, stack)
    /\ calls' = Append(calls, [text |-> text, fg |-> fg, stack |-> stack])
    /\ UNCHANGED <<pos, hp, ai, entities, inventory, visible, handler, pc, todo, last,
                   confusion>>
    /\ UNCHANGED uivars

InitLog == InitQuiet(Width, Height, <<>>, <<>>)

NextLog == \E text \in LogTexts, fg \in LogColours, stack \in BOOLEAN :
              AddMessage(text, fg, stack)

SpecLog == InitLog /\ [][NextLog]_vars

\* The arguments of the call a step makes.
Added == calls'[Len(calls')]
AddStep == Len(calls') = Len(calls) + 1

\* The call stacks: stack is true and the text is the last entry's.
Stacks ==
    /\ Added.stack
    /\ message_log # <<>>
    /\ Added.text = LastEntry(message_log).plain_text

C21_Step ==
    AddStep =>
        IF Stacks
        THEN /\ Len(message_log') = Len(message_log)
             /\ LastEntry(message_log').count = LastEntry(message_log).count + 1
             /\ \A i \in 1 .. Len(message_log) - 1 : message_log'[i] = message_log[i]
        ELSE /\ Len(message_log') = Len(message_log) + 1
             /\ SubSeq(message_log', 1, Len(message_log)) = message_log
             /\ LastEntry(message_log') =
                   [plain_text |-> Added.text, fg |-> Added.fg, count |-> 1]

\* After stacking adds only, no two adjacent entries have the same text.
C21_Inv ==
    (\A k \in DOMAIN calls : calls[k].stack) =>
        \A i \in 1 .. Len(message_log) - 1 :
            message_log[i].plain_text # message_log[i + 1].plain_text

\* C21: add_message with stack true and the text of the last entry adds one to
\* that entry's count and leaves the number of entries as it is; in every
\* other case (stack false, empty log, another text) exactly one entry with
\* count 1 is appended; so after stacking adds only no two adjacent entries
\* have the same text.
C21_StackOrAppend == []C21_Inv /\ [][C21_Step]_vars

\* Stacked twice on the second entry.
C21_Witness ==
    /\ Len(message_log) = 2 /\ LastEntry(message_log).count = 3
    /\ \A k \in DOMAIN calls : calls[k].stack

RECURSIVE SumCounts(_)
SumCounts(log) == IF log = <<>> THEN 0 ELSE Head(log).count + SumCounts(Tail(log))

C29_Inv ==
    /\ \A i \in DOMAIN message_log : message_log[i].count >= 1
    /\ SumCounts(message_log) = Len(calls)

C29_Step ==
    /\ Len(message_log') >= Len(message_log)
    /\ \A i \in DOMAIN message_log :
          /\ message_log'[i].plain_text = message_log[i].plain_text
          /\ message_log'[i].fg = message_log[i].fg

\* C29: the message log only grows and loses no message: the number of
\* entries never decreases, the text and colour of an entry never change,
\* every count is at least 1, and the counts add up to the number of
\* add_message calls made.
C29_AppendOnly == []C29_Inv /\ [][C29_Step]_vars

\* Four calls, two entries: one of them stacked, one with stack false on the
\* same text.
C29_Witness ==
    /\ Len(calls) = MaxAdds /\ Len(message_log) = 2
    /\ \E k \in DOMAIN calls : ~calls[k].stack
    /\ \E i \in DOMAIN message_log : message_log[i].count >= 2

\* -------------------------------------------------------------------------
\* Positions
\* -------------------------------------------------------------------------
C22_Inv == \A e \in Entities : in_bounds(pos[e][1], pos[e][2])

C22_Step == \A e \in Entities : pos'[e] # pos[e] => walkable(pos'[e][1], pos'[e][2])

\* C22: every entity starting inside the map, after any sequence of player
\* actions and enemy decisions every entity's position is within
\* [0, width) x [0, height), and an entity that was relocated stands on a
\* walkable tile.
C22_EntitiesStayOnMap == []C22_Inv /\ [][C22_Step]_vars

\* Player and monsters have all left their first tiles.
C22_Witness == \A a \in Actors : pos[a] # StartPos[a]

\* What the world is made of.
world == <<pos, hp, ai, entities, inventory, visible, message_log>>

C23_Step ==
    \A e \in Enemies : (HostileStep(e) /\ pos[e] \notin visible) =>
        IF ai[e].path # <<>>
        THEN /\ ai'[e].kind = "hostile"
             /\ Len(ai'[e].path) = Len(ai[e].path) - 1
             /\ ai'[e].path = Tail(ai[e].path)
             /\ last'.kind = "Movement"
             /\ last'.dx = Head(ai[e].path)[1] - pos[e][1]
             /\ last'.dy = Head(ai[e].path)[2] - pos[e][2]
             /\ \A o \in Entities \ {e} : pos'[o] = pos[o]
        ELSE /\ last'.kind = "Wait"
             /\ world' = world

\* C23: while a Hostile actor does not sense (its tile is not visible), each
\* decision with a cached path that is not empty removes exactly the first
\* waypoint and issues one Movement toward it; once the path is empty every
\* further such decision is a Wait that changes neither the actor's position
\* nor anything else.
C23_StalePathThenWait == [][C23_Step]_vars

\* An unseen hostile actor has stepped onto its waypoint and has one left.
C23_Witness ==
    /\ pc = "handle_enemy_turns"
    /\ last.who \in Enemies /\ last.act = "Hostile" /\ last.kind = "Movement"
    /\ last.exc = NoExc
    /\ <<pos[last.who][1] - last.dx, pos[last.who][2] - last.dy>> \notin visible
    /\ ai[last.who].kind = "hostile" /\ ai[last.who].path # <<>>

\* C26: a Hostile actor moves at most one cell per decision: every Movement
\* that HostileEnemy.perform issues has a delta (dx, dy) with
\* max(|dx|, |dy|) = 1, also when it follows a stale cached path after an
\* earlier Movement along that path failed as blocked.
C26_HostileOneCell ==
    (last.act = "Hostile" /\ last.kind = "Movement") =>
        Max(Abs(last.dx), Abs(last.dy)) = 1

\* The living actors on one tile.
Blockers(t) == {e \in entities : blocks_movement(e, ai) /\ pos[e] = t}

\* C28: movement keeps blocking entities apart: no two of them sharing a tile
\* at the start, after any sequence of Movement and Bump actions of the
\* player, of Hostile and of Confused actors no two blocking entities share a
\* tile.
C28_BlockersApart == \A t \in Tiles : Cardinality(Blockers(t)) <= 1

\* A monster's Movement onto a living actor's tile has just been refused.
C28_Witness ==
    /\ last.who \in Enemies /\ last.kind = "Movement"
    /\ last.checks = <<"in_bounds", "walkable", "blocking_entity">>
    /\ last.exc = Blocked
    /\ Blockers(<<pos[last.who][1] + last.dx, pos[last.who][2] + last.dy>>) # {}

\* -------------------------------------------------------------------------
\* The cost grid of get_path_to
\* -------------------------------------------------------------------------
\* The decision hostile actor e is about to take calls get_path_to.
GridBuilt(e) ==
    /\ pc = "handle_enemy_turns" /\ PhaseStarted /\ e \in todo
    /\ ai[e].kind = "hostile"
    /\ pos[e] \in visible
    /\ Chebyshev(pos[e], pos[Player]) > 1

MainUnboundKey ==
    /\ pc = "dispatch" /\ handler = "MainGame"
    /\ NoAction
    /\ event' = Ev("keydown", "unbound")
    /\ UNCHANGED <<width, height, mouse_location, cursor, log_length, callback, save_file>>

InitModes == \E n \in 0 .. 2 : InitQuiet(Width, Height, LogOf(n), <<>>)

NextModes ==
    \/ ActivateKey
    \/ DropKey
    \/ HistoryKey
    \/ LookKey
    \/ MainUnboundKey
    \/ WaitKey
    \/ HandleEnemyTurns
    \/ EnemyPhaseDone
    \/ UpdateFov
    \/ AliveCheck
    \/ \E button \in {1, 2, 3} : InventoryMouseClick(button)
    \/ HistoryOtherKey
    \/ \E d \in MOVE_KEYS : TargetMoveKey(d, {})
    \/ TargetConfirmKey
    \/ \E tile \in MouseTiles, button \in {1, 2, 3} : TargetMouseClick(tile, button)

SpecModes == InitModes /\ [][NextModes]_vars

\* The handler each mode key of the MainGameEventHandler returns.
ModeOf ==
    [sym \in {"K_i", "K_d", "K_v", "K_SLASH"} |->
        CASE sym = "K_i" -> "InventoryActivate"
          [] sym = "K_d" -> "InventoryDrop"
          [] sym = "K_v" -> "HistoryViewer"
          [] sym = "K_SLASH" -> "Look"]

\* Only the handler changes: no perform, no enemy phase, no update_fov.
OnlyHandler(state) ==
    /\ handler' = state
    /\ calls' = <<>>
    /\ pc' = "dispatch"
    /\ world' = world

C25_Step ==
    /\ (pc = "dispatch" /\ handler = "MainGame" /\ event' # event
        /\ event'.sym \in DOMAIN ModeOf) =>
          OnlyHandler(ModeOf[event'.sym])
    /\ (pc = "dispatch" /\ handler = "Look" /\ event' # event
        /\ \/ event'.sym = "confirm"
           \/ /\ event'.type = "mousebuttondown" /\ event'.button = 1
              /\ in_bounds(event'.x, event'.y)) =>
          OnlyHandler("MainGame")
    /\ (pc = "dispatch" /\ handler = "MainGame" /\ event' # event
        /\ event'.sym = "unbound") =>
          OnlyHandler("MainGame")

\* C25: mode-switching inputs never run a turn: in MainGame the inventory-use,
\* inventory-drop, history and look keys, and in Look the confirm key or a
\* left click in bounds, change only the active handler (to InventoryActivate,
\* InventoryDrop, HistoryViewer, Look and MainGame) with no enemy phase and no
\* visibility recompute; a MainGame key of no table leaves handler and world
\* as they are.
C25_ModeSwitchNoTurn == [][C25_Step]_vars

\* Back in MainGame from Look by a left click on the map.
C25_Witness ==
    /\ handler = "MainGame" /\ event.type = "mousebuttondown" /\ event.button = 1
    /\ in_bounds(event.x, event.y) /\ last.act = "handler"
    /\ callback = NoCallback

\* -------------------------------------------------------------------------
\* GameOverEventHandler: every event it can receive, without faults
\* -------------------------------------------------------------------------
\* A mouse click in GameOver: no handler method, dispatch returns None.
GameOverMouseClick(button) ==
    /\ pc = "dispatch" /\ handler = "GameOver"
    /\ button \in {1, 2, 3}
    /\ NoAction
    /\ event' = [Ev("mousebuttondown", "none") EXCEPT !.button = button]
    /\ UNCHANGED <<width, height, mouse_location, cursor, log_length, callback, save_file>>

InitOver == InitMain /\ ~save_file

NextOver ==
    \/ \E d \in MOVE_KEYS : MoveKey(d)
    \/ WaitKey
    \/ HandleEnemyTurns
    \/ \E e \in Enemies : EnemyTurn(e)
    \/ EnemyPhaseDone
    \/ UpdateFov
    \/ AliveCheck
    \/ GameOverKey
    \/ \E button \in {1, 2, 3} : GameOverMouseClick(button)
    \/ \E tile \in MouseTiles : handler = "GameOver" /\ MouseMotion(tile)
    \/ QuitEvent
    \/ EscapeKey

SpecOver == InitOver /\ [][NextOver]_vars

\* perform() is called: by handle_action for the player, by the enemy phase
\* for a monster with an AI.
PerformCalled ==
    \/ PlayerPerformStep
    \/ \E e \in Enemies : EnemyDecisionStep(e) /\ last'.act \in {"Hostile", "Confused"}

\* GameOver is the state of a dead player between two events, or at the exit.
C27_Inv ==
    /\ handler = "GameOver" => (pc \in {"dispatch", "exit"} /\ ~is_alive(Player, ai))
    /\ (pc = "dispatch" /\ ~is_alive(Player, ai)) => handler = "GameOver"

\* An event in GameOver does nothing or is the quit request that ends main.
C27_Step ==
    handler = "GameOver" =>
        /\ handler' = "GameOver"
        /\ world' = world
        /\ ~PerformCalled
        /\ \/ pc' = "dispatch" /\ calls' = <<>>
           \/ /\ pc' = "exit" /\ last'.act = "quit"
              /\ (event'.type = "quit" \/ event'.sym = "K_ESCAPE")

\* C27: GameOver is absorbing: once it is the active state no key or mouse
\* event produces an action, runs the enemy phase or the visibility recompute,
\* or switches to another state; the only way out is the termination a quit
\* request raises. Without faults no action is performed once GameOver is the
\* active state; in the enemy phase in which the player dies the monsters
\* still to decide do take their decisions.
C27_GameOverAbsorbing == []C27_Inv /\ [][C27_Step]_vars

\* The statement that no action is performed after the player has died.
C27_Original == [][~is_alive(Player, ai) => ~PerformCalled]_vars

\* A click was handled in GameOver and the handler is still GameOver.
C27_Witness ==
    /\ handler = "GameOver" /\ pc = "dispatch"
    /\ event.type = "mousebuttondown" /\ calls = <<>>

====
